---- MODULE Spec2Model ----
(***************************************************************************)
(* A model of the lib-fsm engine: FsmEvent, FsmState and FiniteStateMachine *)
(* (src/src.ts/fsm-event.ts, src/src.ts/fsm-state.ts lines 170-366,         *)
(* src/src.ts/finite-state-machine.ts).                                     *)
(*                                                                          *)
(* FsmState and FsmEvent are JavaScript objects: the registries, the        *)
(* transition tables and the token bindings hold references, and the        *)
(* tables are keyed by event object identity.  Objects are therefore kept   *)
(* in two heaps (sobj, eobj) and referred to by their index; 0 is null.     *)
(* A Map keeps insertion order; the registries are only ever filled by the  *)
(* add operations, which construct the object they insert, so insertion     *)
(* order is heap order and a registry is the set of indexes it holds.       *)
(***************************************************************************)
EXTENDS Integers, Sequences, FiniteSets, TLC

\* ---------------------------------------------------------------- bounds
MaxStates == 4
MaxEvents == 3
MaxCalls == 2
MaxScriptCalls == 11

\* ------------------------------------------------------- inputs of calls
FsmName == "fsm"
Null == 0
StateNames == {"A", "F"}
EventNames == {"x", "y"}
IdArgs == {<<>>, <<1>>}
RegionArgs == {"", "r2"}
TokenArgs == {"", " ", "t1", "t2"}
OutputArgs == {<<>>, <<0>>, <<2>>}

VARIABLES sobj, eobj, states, events, initialStates, tokenInstances,
          allowSelfTransition, listener, last, calls, script, pending

vars == <<sobj, eobj, states, events, initialStates, tokenInstances,
          allowSelfTransition, listener, last, calls, script, pending>>

\* An argument typed FsmState | number | string (or FsmEvent | number | string):
\* an object of the heap, an id or a name
Obj(i) == [k |-> "obj", n |-> i, s |-> ""]
Id(n) == [k |-> "id", n |-> n, s |-> ""]
Name(s) == [k |-> "name", n |-> 0, s |-> s]
NoArg == [k |-> "none", n |-> 0, s |-> ""]
StateRefs == 1..Len(sobj)
EventRefs == 1..Len(eobj)
StateArgs == {Obj(i) : i \in StateRefs} \cup {Id(0), Name("F")}
EventArgs == {Obj(i) : i \in EventRefs} \cup {Id(1), Name("x")}
\* The (currentState, onEvent, nextState) arguments of one call, all given
\* the same way: as objects, as ids or as names
TransitionArgs ==
    {<<Obj(c), Obj(e), Obj(n)>> : c \in StateRefs, e \in EventRefs, n \in StateRefs}
    \cup {<<Id(c), Id(1), Id(0)>> : c \in {0, 1}}
    \cup {<<Name("A"), Name("x"), Name(n)>> : n \in StateNames}
\* The argument of equals on State s / Event e: any object, the receiver's
\* own id or name, another id or name, or nothing
StateEqualsArgs(s) ==
    {Obj(i) : i \in StateRefs} \cup {Id(sobj[s].stateId), Name(sobj[s].stateName)}
    \cup {Id(1), Name("F"), NoArg}
EventEqualsArgs(e) ==
    {Obj(i) : i \in EventRefs} \cup {Id(eobj[e].eventId), Name(eobj[e].eventName)}
    \cup {Id(1), Name("x"), NoArg}
\* The (currentState, onEvent) arguments of a query, given the same ways
QueryArgs == {<<a[1], a[2]>> : a \in TransitionArgs}
\* The (onEvent, nextState) arguments of FsmState.addTransition: two
\* objects, or one of them null
EdgeArgs == (EventRefs \X StateRefs) \cup {<<Null, 1>>, <<1, Null>>}

\* The optional resolver of updateTokenToNextState: absent, or a function
\* that returns null or a State of the engine
NoAlt == [given |-> FALSE, ret |-> Null]
AltArgs == {NoAlt} \cup {[given |-> TRUE, ret |-> r] : r \in {Null} \cup states}

\* ------------------------------------------------------------ FsmEvent
NewEvent(eventId, eventName) == [eventId |-> eventId, eventName |-> eventName]

Event_equals(e, other) ==
    CASE other.k = "obj" -> /\ e.eventId = eobj[other.n].eventId
                            /\ e.eventName = eobj[other.n].eventName
      [] other.k = "id" -> e.eventId = other.n
      [] other.k = "name" -> e.eventName = other.s
      [] OTHER -> FALSE

\* ------------------------------------------------------------ FsmState
\* new FsmState(fsmName, stateId, stateName, isFinalState): a final State
\* gets no tables (null), which the model keeps as isFinalState with empty
\* tables; see TableAbsent
NewState(stateId, stateName, isFinalState) ==
    [stateId |-> stateId, stateName |-> stateName,
     isFinalState |-> isFinalState, isDeterministic |-> TRUE,
     initialStateRegionName |-> "",
     transitionTable |-> <<>>, outputTable |-> <<>>]

\* !this._transitionTable: the tables are null exactly for a State
\* constructed final, and are never reassigned
TableAbsent(o) == o.isFinalState

\* Mutant of State_equalsObj: the names alone are compared
State_equalsObj_ByName(o, p) == o.stateName = p.stateName

State_equalsObj(o, p) == o.stateId = p.stateId /\ o.stateName = p.stateName

State_equals(o, other) ==
    CASE other.k = "obj" -> State_equalsObj(o, sobj[other.n])
      [] other.k = "id" -> o.stateId = other.n
      [] other.k = "name" -> o.stateName = other.s
      [] OTHER -> FALSE

\* Mutant of markInitial: the State is not tagged
markInitial_Untagged(o, region) == o

markInitial(o, region) == [o EXCEPT !.initialStateRegionName = region]
\* Mutant of unmarkInitial: the tag is kept
unmarkInitial_Kept(o) == o

unmarkInitial(o) == [o EXCEPT !.initialStateRegionName = ""]
isInitialState(o) == o.initialStateRegionName # "" /\ Len(o.initialStateRegionName) > 0

isFinalState(o) ==
    o.isFinalState \/ TableAbsent(o) \/ Cardinality(DOMAIN o.transitionTable) = 0

MapSet(m, key, v) == [x \in DOMAIN m \cup {key} |-> IF x = key THEN v ELSE m[x]]
MapDelete(m, key) == [x \in DOMAIN m \ {key} |-> m[x]]

\* Mutant of State_nextState: the table is not looked up by the event
State_nextState_AnyEdge(o, e) ==
    IF o.isFinalState \/ TableAbsent(o) \/ e = Null \/ DOMAIN o.transitionTable = {}
    THEN Null
    ELSE o.transitionTable[CHOOSE x \in DOMAIN o.transitionTable :
                              \A y \in DOMAIN o.transitionTable : x <= y]

\* FsmState.nextState(onEvent), onEvent an event reference or null
State_nextState(o, e) ==
    IF o.isFinalState \/ TableAbsent(o) \/ e = Null THEN Null
    ELSE IF e \in DOMAIN o.transitionTable THEN o.transitionTable[e] ELSE Null

\* FsmState.nextOutput(onEvent): the function attached (its arity), <<>> for none
State_nextOutput(o, e) ==
    IF o.isFinalState \/ TableAbsent(o) \/ e = Null THEN <<>>
    ELSE IF e \in DOMAIN o.outputTable THEN o.outputTable[e] ELSE <<>>

\* Mutant of CannotMutate: the guard is missing
CannotMutate_Never(o) == FALSE

\* this._isFinalState || !this._transitionTable: the State takes no edges
CannotMutate(o) == o.isFinalState \/ TableAbsent(o)

\* Mutant of State_addTransition: an existing edge is overwritten
State_addTransition_Overwrite(so, i, e, n, output) ==
    LET o == so[i] IN
    IF CannotMutate(o) THEN [err |-> "FinalStateMutation", o |-> o]
    ELSE IF e = Null THEN [err |-> "InvalidEvent", o |-> o]
    ELSE IF n = Null THEN [err |-> "InvalidNextState", o |-> o]
    ELSE [err |-> "",
          o |-> [o EXCEPT !.transitionTable = MapSet(@, e, n),
                          !.outputTable = MapSet(@, e, output)]]

\* FsmState.addTransition(onEvent, nextState, output) on object i: the error
\* it throws ("" for none) and the object afterwards
State_addTransition(so, i, e, n, output) ==
    LET o == so[i] IN
    IF CannotMutate(o) THEN [err |-> "FinalStateMutation", o |-> o]
    ELSE IF e = Null THEN [err |-> "InvalidEvent", o |-> o]
    ELSE IF n = Null THEN [err |-> "InvalidNextState", o |-> o]
    ELSE IF e \in DOMAIN o.transitionTable
         THEN IF State_equalsObj(so[o.transitionTable[e]], so[n])
              THEN [err |-> "", o |-> o]
              ELSE [err |-> "TransitionConflict", o |-> o]
    ELSE [err |-> "",
          o |-> [o EXCEPT !.transitionTable = MapSet(@, e, n),
                          !.outputTable = MapSet(@, e, output)]]

\* Mutant of State_removeTransition: the edge is not deleted
State_removeTransition_Kept(so, i, e) == [err |-> "", o |-> so[i]]

\* FsmState.removeTransition(onEvent) on object i
State_removeTransition(so, i, e) ==
    LET o == so[i] IN
    IF CannotMutate(o) THEN [err |-> "FinalStateMutation", o |-> o]
    ELSE IF e = Null THEN [err |-> "InvalidEvent", o |-> o]
    ELSE IF e \notin DOMAIN o.transitionTable THEN [err |-> "UnknownTransition", o |-> o]
    ELSE [err |-> "", o |-> [o EXCEPT !.transitionTable = MapDelete(@, e)]]

\* ------------------------------------------------- FiniteStateMachine
\* The record left by a call: what it was given (st and next are the State
\* arguments resolved), what it returned or threw,
\* the token-channel emits, resolver invocation and binding write in the
\* order they happened (trace), and the structural-channel emits (fsmNotes)
Call(op) == [op |-> op, tok |-> "", evArg |-> NoArg, alt |-> NoAlt, st |-> Null,
             next |-> Null, idArg |-> <<>>, region |-> "", autoCreate |-> FALSE, bool |-> FALSE, arg |-> NoArg,
             outcome |-> "ok", ret |-> Null, trace |-> <<>>, fsmNotes |-> <<>>,
             outputs |-> 0, handler |-> <<>>]

\* this._listener?.emit(topic, ...)
Emit(topic) == IF listener THEN <<topic>> ELSE <<>>

Min(S) == CHOOSE x \in S : \A y \in S : x <= y

\* Mutant of getStateById: the registry lookup by id finds nothing
getStateById_Miss(so, reg, id) == Null

\* getState(state, stateName?) over a registry reg of the heap so
getStateById(so, reg, id) ==
    LET hit == {i \in reg : so[i].stateId = id} IN
    IF hit = {} THEN Null ELSE CHOOSE i \in hit : TRUE

getStateByName(so, reg, name) ==
    LET hit == {i \in reg : so[i].stateName = name} IN
    IF hit = {} THEN Null ELSE Min(hit)

getStateByIdName(so, reg, id, name) ==
    LET i == getStateById(so, reg, id) IN
    IF i # Null /\ so[i].stateName = name THEN i ELSE Null

getState(arg) ==
    CASE arg.k = "id" -> getStateById(sobj, states, arg.n)
      [] arg.k = "name" -> getStateByName(sobj, states, arg.s)
      [] OTHER -> Null

getEvent(arg) ==
    CASE arg.k = "id" ->
            LET hit == {i \in events : eobj[i].eventId = arg.n} IN
            IF hit = {} THEN Null ELSE CHOOSE i \in hit : TRUE
      [] arg.k = "name" ->
            LET hit == {i \in events : eobj[i].eventName = arg.s} IN
            IF hit = {} THEN Null ELSE Min(hit)
      [] OTHER -> Null

\* (x instanceof FsmState) ? x : this.getState(x)
ResolveState(arg) == IF arg.k = "obj" THEN arg.n ELSE getState(arg)
ResolveEvent(arg) == IF arg.k = "obj" THEN arg.n ELSE getEvent(arg)

\* Mutant of getInitialState: the region argument is ignored
getInitialState_Default(init, regionArg) ==
    IF FsmName \in DOMAIN init THEN init[FsmName] ELSE Null

getInitialState(init, regionArg) ==
    LET region == IF regionArg = "" THEN FsmName ELSE regionArg IN
    IF region \in DOMAIN init THEN init[region] ELSE Null

\* Mutant of SetInitialState: the State given is not looked up in the
\* registry
SetInitialState_Unchecked(so, reg, init, state, regionArg) ==
    LET region == IF regionArg = "" THEN FsmName ELSE regionArg
        cur == IF region \in DOMAIN init THEN init[region] ELSE Null
        so1 == IF cur # Null THEN [so EXCEPT ![cur] = unmarkInitial(@)] ELSE so
    IN [ok |-> TRUE, sobj |-> [so1 EXCEPT ![state] = markInitial(@, region)],
        init |-> MapSet(init, region, state),
        notes |-> (IF cur # Null THEN <<<<"fsm.state.initial.removed", cur>>>> ELSE <<>>)
                  \o <<<<"fsm.state.initial.added", state>>>>]

\* Mutant of SetInitialState: the addition is announced first
SetInitialState_AddedFirst(so, reg, init, state, regionArg) ==
    LET region == IF regionArg = "" THEN FsmName ELSE regionArg
        lookup == getStateByIdName(so, reg, so[state].stateId, so[state].stateName)
        cur == IF region \in DOMAIN init THEN init[region] ELSE Null
        so1 == IF cur # Null THEN [so EXCEPT ![cur] = unmarkInitial(@)] ELSE so
        so2 == [so1 EXCEPT ![lookup] = markInitial(@, region)]
    IN IF lookup = Null
       THEN [ok |-> FALSE, sobj |-> so, init |-> init, notes |-> <<>>]
       ELSE [ok |-> TRUE, sobj |-> so2, init |-> MapSet(init, region, lookup),
             notes |-> <<<<"fsm.state.initial.added", lookup>>>>
                       \o (IF cur # Null THEN <<<<"fsm.state.initial.removed", cur>>>>
                           ELSE <<>>)]

\* setInitialState(state, fsmRegionName?) on heap so, registry reg and region
\* mapping init: the result, the heap and mapping afterwards, and the emits
SetInitialState(so, reg, init, state, regionArg) ==
    LET region == IF regionArg = "" THEN FsmName ELSE regionArg
        lookup == getStateByIdName(so, reg, so[state].stateId, so[state].stateName)
        cur == IF region \in DOMAIN init THEN init[region] ELSE Null
        so1 == IF cur # Null THEN [so EXCEPT ![cur] = unmarkInitial(@)] ELSE so
        so2 == [so1 EXCEPT ![lookup] = markInitial(@, region)]
    IN IF lookup = Null
       THEN [ok |-> FALSE, sobj |-> so, init |-> init, notes |-> <<>>]
       ELSE [ok |-> TRUE, sobj |-> so2, init |-> MapSet(init, region, lookup),
             notes |-> (IF cur # Null THEN <<<<"fsm.state.initial.removed", cur>>>> ELSE <<>>)
                       \o <<<<"fsm.state.initial.added", lookup>>>>]

\* Mutant of AddStateTransition: allowSelfTransition is not consulted
AddStateTransition_SelfAllowed(so, c, e, n) ==
    IF c = Null \/ e = Null \/ n = Null
    THEN [err |-> "IncompleteTransitionInput", sobj |-> so, notes |-> <<>>]
    ELSE LET r == State_addTransition(so, c, e, n, <<>>) IN
         IF r.err # "" THEN [err |-> r.err, sobj |-> so, notes |-> <<>>]
         ELSE [err |-> "", sobj |-> [so EXCEPT ![c] = r.o],
               notes |-> <<<<"fsm.transit.added", c>>>>]

\* addStateTransition(currentState, onEvent, nextState) with the arguments
\* resolved to references c, e, n (Null when unresolved), on heap so
AddStateTransition(so, c, e, n) ==
    IF c = Null \/ e = Null \/ n = Null
    THEN [err |-> "IncompleteTransitionInput", sobj |-> so, notes |-> <<>>]
    ELSE IF ~allowSelfTransition /\ State_equalsObj(so[c], so[n])
    THEN [err |-> "SelfTransitionDisallowed", sobj |-> so, notes |-> <<>>]
    ELSE LET r == State_addTransition(so, c, e, n, <<>>) IN
         IF r.err # "" THEN [err |-> r.err, sobj |-> so, notes |-> <<>>]
         ELSE [err |-> "", sobj |-> [so EXCEPT ![c] = r.o],
               notes |-> <<<<"fsm.transit.added", c>>>>]

\* removeStateTransition(currentState, onEvent), arguments resolved
RemoveStateTransition(so, c, e) ==
    IF c = Null \/ e = Null
    THEN [err |-> "IncompleteTransitionInput", sobj |-> so, notes |-> <<>>]
    ELSE LET r == State_removeTransition(so, c, e) IN
         IF r.err # "" THEN [err |-> r.err, sobj |-> so, notes |-> <<>>]
         ELSE [err |-> "", sobj |-> [so EXCEPT ![c] = r.o],
               notes |-> <<<<"fsm.transition.removed", c>>>>]

\* this._states.forEach(state => { if (!state.isFinalState()) { try {...}
\* catch { ignore } } }): each State's step reads and writes that State only;
\* step[k] is the outcome of the call on State k
RECURSIVE ForEachNotes(_, _, _)
ForEachNotes(so, step, k) ==
    IF k > Len(so) THEN <<>>
    ELSE (IF k \in states /\ ~isFinalState(so[k]) THEN step[k].notes ELSE <<>>)
         \o ForEachNotes(so, step, k + 1)

\* Mutant of ForEachState: the first State whose call throws ends the loop
ForEachState_AbortOnError(so, step) ==
    LET failing == {k \in DOMAIN so : /\ k \in states /\ ~isFinalState(so[k])
                                      /\ step[k].err # ""}
        stop == IF failing = {} THEN Len(so) + 1 ELSE Min(failing)
    IN [sobj |-> [k \in DOMAIN so |->
                     IF k < stop /\ k \in states /\ ~isFinalState(so[k])
                     THEN step[k].sobj[k] ELSE so[k]],
        notes |-> ForEachNotes(so, step, 1)]

ForEachState(so, step) ==
    [sobj |-> [k \in DOMAIN so |->
                  IF k \in states /\ ~isFinalState(so[k]) THEN step[k].sobj[k] ELSE so[k]],
     notes |-> ForEachNotes(so, step, 1)]

\* !tokenId?.trim(): the empty string, or white space only
IsBlank(tokenId) == tokenId \in {"", " "}

\* Mutant of CreateTokenInstance: the creation is not announced
CreateTokenInstance_Silent(tokenId, regionArg) ==
    LET token == getInitialState(initialStates, regionArg) IN
    IF IsBlank(tokenId)
    THEN [err |-> "InvalidTokenId", token |-> Null, tokens |-> tokenInstances, trace |-> <<>>]
    ELSE IF tokenId \in DOMAIN tokenInstances
    THEN [err |-> "TokenExists", token |-> Null, tokens |-> tokenInstances, trace |-> <<>>]
    ELSE IF token = Null
    THEN [err |-> "InitialStateMissing", token |-> Null, tokens |-> tokenInstances,
          trace |-> <<>>]
    ELSE [err |-> "", token |-> token, tokens |-> MapSet(tokenInstances, tokenId, token),
          trace |-> <<"tokenInstances.set">>]

\* createTokenInstance(tokenId, fsmRegionName?)
CreateTokenInstance(tokenId, regionArg) ==
    LET token == getInitialState(initialStates, regionArg) IN
    IF IsBlank(tokenId)
    THEN [err |-> "InvalidTokenId", token |-> Null, tokens |-> tokenInstances, trace |-> <<>>]
    ELSE IF tokenId \in DOMAIN tokenInstances
    THEN [err |-> "TokenExists", token |-> Null, tokens |-> tokenInstances, trace |-> <<>>]
    ELSE IF token = Null
    THEN [err |-> "InitialStateMissing", token |-> Null, tokens |-> tokenInstances,
          trace |-> <<>>]
    ELSE [err |-> "", token |-> token, tokens |-> MapSet(tokenInstances, tokenId, token),
          trace |-> <<"tokenInstances.set">> \o Emit("token.new")]

\* Mutant of GetTokenInstance: a missing token is created whatever
\* autoCreate says
GetTokenInstance_AlwaysCreates(tokenId, autoCreate, regionArg) ==
    IF IsBlank(tokenId)
    THEN [err |-> "InvalidTokenId", token |-> Null, tokens |-> tokenInstances,
          trace |-> Emit("error.notfound.tokenid")]
    ELSE IF tokenId \in DOMAIN tokenInstances
    THEN [err |-> "", token |-> tokenInstances[tokenId], tokens |-> tokenInstances,
          trace |-> <<>>]
    ELSE CreateTokenInstance(tokenId, regionArg)

\* getTokenInstance(tokenId, autoCreate = true, fsmRegionName?)
GetTokenInstance(tokenId, autoCreate, regionArg) ==
    IF IsBlank(tokenId)
    THEN [err |-> "InvalidTokenId", token |-> Null, tokens |-> tokenInstances,
          trace |-> Emit("error.notfound.tokenid")]
    ELSE IF tokenId \in DOMAIN tokenInstances
    THEN [err |-> "", token |-> tokenInstances[tokenId], tokens |-> tokenInstances,
          trace |-> <<>>]
    ELSE IF ~autoCreate
    THEN [err |-> "TokenNotFound", token |-> Null, tokens |-> tokenInstances,
          trace |-> Emit("error.notfound.tokenid")]
    ELSE CreateTokenInstance(tokenId, regionArg)

\* FiniteStateMachine.nextState(currentState, onEvent), arguments resolved
Fsm_nextState(c, e) == IF c = Null \/ e = Null THEN Null ELSE State_nextState(sobj[c], e)

\* FsmState.isTransitionValid(onEvent): this.nextState(onEvent) !== null
State_isTransitionValid(o, e) == State_nextState(o, e) # Null

\* Mutant of State_hasNextStateOnEvent: any edge for the event will do
State_hasNextStateOnEvent_AnyTarget(o, e, n) ==
    ~TableAbsent(o) /\ e # Null /\ n # Null /\ e \in DOMAIN o.transitionTable

\* FsmState.hasNextStateOnEvent(onEvent, nextState):
\* nextState.equals(this._transitionTable.get(onEvent)), equals(undefined)
\* being false
State_hasNextStateOnEvent(o, e, n) ==
    IF TableAbsent(o) \/ e = Null \/ n = Null THEN FALSE
    ELSE IF e \in DOMAIN o.transitionTable
         THEN State_equalsObj(sobj[n], sobj[o.transitionTable[e]])
         ELSE FALSE

\* FiniteStateMachine.isTransitionValid(currentState, onEvent, newState) and
\* isTransitionValidByEvent(currentState, onEvent), arguments resolved
Fsm_isTransitionValid(c, e, n) ==
    IF c = Null \/ e = Null \/ n = Null THEN FALSE
    ELSE State_hasNextStateOnEvent(sobj[c], e, n)

Fsm_isTransitionValidByEvent(c, e) ==
    IF c = Null \/ e = Null THEN FALSE ELSE State_isTransitionValid(sobj[c], e)

\* Mutant of Throw: the error is swallowed and the call returns
Throw_Swallowed(c, outcome, st, trace, tokens) ==
    [call |-> [c EXCEPT !.st = st, !.trace = trace], tokens |-> tokens]

\* emit(...); throw new Error(...): the call ends with the error, and the
\* bindings stay as they are at that point
Throw(c, outcome, st, trace, tokens) ==
    [call |-> [c EXCEPT !.outcome = outcome, !.st = st, !.trace = trace],
     tokens |-> tokens]

\* Mutant of IsNonDeterministic: every target counts as non-deterministic
IsNonDeterministic_Always(tentative) == tentative # Null

\* nextState && !nextState.isDeterministic()
IsNonDeterministic(tentative) ==
    tentative # Null /\ ~sobj[tentative].isDeterministic

\* Mutant of NdResolverMissing: the missing resolver is not checked for
NdResolverMissing_Unchecked(nd, alt) == FALSE

\* if (!altStateTable) { emit(onErrorNdStateTableNotFound); throw }
NdResolverMissing(nd, alt) == nd /\ ~alt.given

\* Mutants of ResolvedNextState: the resolver's answer is dropped; the
\* resolver is consulted whenever one is supplied
ResolvedNextState_Tentative(nd, tentative, alt) == tentative

ResolvedNextState_WheneverGiven(nd, tentative, alt) ==
    IF alt.given THEN alt.ret ELSE tentative

\* nextState = altStateTable(tokenId, tokenInstance, event), inside the
\* non-deterministic branch only
ResolvedNextState(nd, tentative, alt) == IF nd THEN alt.ret ELSE tentative

\* Mutant of TransitTopic: no self-transition topic
TransitTopic_NoSelf(cur, next) ==
    IF isFinalState(sobj[next]) THEN "token.state.final" ELSE "token.state.changed"

\* The topic of a successful advancement from State cur to State next
TransitTopic(cur, next) ==
    IF State_equalsObj(sobj[cur], sobj[next]) THEN "token.state.changed.self"
    ELSE IF isFinalState(sobj[next]) THEN "token.state.final"
    ELSE "token.state.changed"

\* updateTokenToNextState(tokenId, onEvent, altStateTable?): the call record
\* and the token bindings afterwards
UpdateTokenToNextState(tokenId, onEvent, alt) ==
    LET g == GetTokenInstance(tokenId, TRUE, "")
        tokenInstance == g.token
        event == ResolveEvent(onEvent)
        tentative == Fsm_nextState(tokenInstance, event)
        nd == IsNonDeterministic(tentative)
        nextState == ResolvedNextState(nd, tentative, alt)
        ndTrace == IF nd THEN Emit("token.transit.nd") \o <<"altStateTable()">> ELSE <<>>
        c == [Call("updateTokenToNextState") EXCEPT !.tok = tokenId, !.evArg = onEvent,
                                                   !.alt = alt]
    IN IF g.err # ""
       THEN Throw(c, g.err, Null, g.trace, g.tokens)
       ELSE IF event = Null
       THEN Throw(c, "EventNotFound", tokenInstance,
                  g.trace \o Emit("error.notfound.event"), g.tokens)
       ELSE IF NdResolverMissing(nd, alt)
       THEN Throw(c, "InvalidNDStateTable", tokenInstance,
                  g.trace \o Emit("error.notfound.statetable.nd"), g.tokens)
       ELSE IF nextState = Null
       THEN Throw(c, IF nd THEN "InvalidNDStateChange" ELSE "InvalidStateChange",
                  tokenInstance,
                  g.trace \o ndTrace \o Emit("token.state.invalid.change"), g.tokens)
       ELSE [call |-> [c EXCEPT !.st = tokenInstance, !.ret = nextState,
                                !.trace = g.trace \o ndTrace
                                    \o Emit(TransitTopic(tokenInstance, nextState))
                                    \o <<"tokenInstances.set">>],
             tokens |-> MapSet(g.tokens, tokenId, nextState)]

\* pending is the frame of an updateTokenToNextState call that is inside the
\* emit of its transit topic (lines 363-367), a handler of the topic running:
\* the token, the State the call resolved and the record the call returns
\* with; NoPending when no such call is on the stack
NoPending == [tok |-> "", next |-> Null, call |-> Call("none")]

\* Mutant of BindingAtNotify: the binding is written before the emit
BindingAtNotify_Written(tokens, tokenId, nextState) == MapSet(tokens, tokenId, nextState)

\* The bindings a handler of the transit topic finds: the emit of lines
\* 363-367 comes before _tokenInstances.set of line 368
BindingAtNotify(tokens, tokenId, nextState) == tokens

\* this._tokenInstances.set(tokenId, nextState), after the emit has returned,
\* on the bindings the handlers left
BindingAtReturn(tokens, tokenId, nextState) == MapSet(tokens, tokenId, nextState)

\* script is the calls of the driver's token run made so far, in the run's
\* order; NoScript when the calls made are not that run
NoScript == <<"not the run">>

\* The machine the driver scripts wire, on a smaller scale:
\*   addState("A"); addFinalState("F"); addState("B");
\*   addEvent("x"); addEvent("y");
\*   A.addTransition(x, B, () => ...); A.addTransition(y, F);
\*   B.addTransition(x, B)
WiredEvents == <<NewEvent(0, "x"), NewEvent(1, "y")>>

WiredStates ==
    LET s0 == <<NewState(0, "A", FALSE), NewState(1, "F", TRUE), NewState(2, "B", FALSE)>>
        s1 == SetInitialState(s0, {1}, <<>>, 1, "").sobj
        s2 == [s1 EXCEPT ![1] = State_addTransition(s1, 1, 1, 3, <<0>>).o]
        s3 == [s2 EXCEPT ![1] = State_addTransition(s2, 1, 2, 2, <<>>).o]
    IN [s3 EXCEPT ![3] = State_addTransition(s3, 3, 1, 3, <<>>).o]

\* The traffic light the driver wires (addState / addFinalState / addEvent,
\* then the addTransition and addStateTransition calls): heap indexes in
\* creation order
Red == 1
Yellow == 2
Green == 3
Damaged == 4
NoCar == 1
Secs_10 == 2
Secs_60 == 3
Secs_90 == 4
Secs_600 == 5
TrafficToken == "trafficLight"

TrafficEvents ==
    <<NewEvent(0, "NoCar"), NewEvent(10, "Secs_10"), NewEvent(60, "Secs_60"),
      NewEvent(90, "Secs_90"), NewEvent(600, "Secs_600")>>

\* The edges in the order the driver adds them: <<state, event, next, output>>
TrafficEdges ==
    <<<<Red, NoCar, Green, <<>>>>, <<Red, Secs_60, Green, <<0>>>>,
      <<Red, Secs_600, Damaged, <<>>>>,
      <<Yellow, Secs_10, Red, <<>>>>, <<Yellow, Secs_60, Damaged, <<>>>>,
      <<Yellow, Secs_600, Damaged, <<>>>>,
      <<Green, Secs_90, Yellow, <<>>>>, <<Green, NoCar, Green, <<>>>>,
      <<Green, Secs_600, Damaged, <<>>>>,
      <<Damaged, Secs_600, Red, <<>>>>>>

\* The calls of edges[k..] made one after the other on heap so; an error
\* (the driver catches the one on Damaged) leaves the State as it was
RECURSIVE Wire(_, _, _)
Wire(so, edges, k) ==
    IF k > Len(edges) THEN so
    ELSE LET d == edges[k] IN
         Wire([so EXCEPT ![d[1]] = State_addTransition(so, d[1], d[2], d[3], d[4]).o],
              edges, k + 1)

TrafficStates ==
    LET s0 == <<NewState(0, "Red", FALSE), NewState(1, "Yellow", FALSE),
                NewState(999, "Green", FALSE), NewState(-1, "Damaged", TRUE)>>
    IN Wire(SetInitialState(s0, {Red}, <<>>, Red, "").sobj, TrafficEdges, 1)

\* "*** Running FSM v1.1": createTokenInstance('trafficLight'), then the
\* updates Secs_60, Secs_90, Secs_10; the run repeated three times and
\* ended by Secs_600
TrafficRun ==
    <<"createTokenInstance", "Secs_60", "Secs_90", "Secs_10", "Secs_60", "Secs_90",
      "Secs_10", "Secs_60", "Secs_90", "Secs_10", "Secs_600">>

\* The run after one more call named step
RunAfter(step) ==
    IF script # NoScript /\ Len(script) < Len(TrafficRun)
       /\ TrafficRun[Len(script) + 1] = step
    THEN Append(script, step) ELSE NoScript

\* createNewFiniteStateMachine(fsmName), then either nothing or the wiring
\* script above; the listener accessor may or may not have been used yet
Init ==
    /\ \/ /\ sobj = <<>>
          /\ eobj = <<>>
          /\ states = {}
          /\ events = {}
          /\ initialStates = <<>>
       \/ /\ sobj = WiredStates
          /\ eobj = WiredEvents
          /\ states = 1..3
          /\ events = 1..2
          /\ initialStates = SetInitialState(WiredStates, {1}, <<>>, 1, "").init
    /\ tokenInstances = <<>>
    /\ allowSelfTransition = TRUE
    /\ listener \in BOOLEAN
    /\ last = Call("new")
    /\ calls = 0
    /\ script = NoScript
    /\ pending = NoPending

Step == calls < MaxCalls /\ calls' = calls + 1 /\ UNCHANGED <<script, pending>>

\* Mutant of clearAll: the token bindings are cleared too
clearAll_WithTokens ==
    /\ Step
    /\ states' = {}
    /\ events' = {}
    /\ initialStates' = <<>>
    /\ tokenInstances' = <<>>
    /\ last' = [Call("clearAll") EXCEPT !.fsmNotes = <<<<"fsm.cleared", Null>>>>]
    /\ UNCHANGED <<sobj, eobj, allowSelfTransition, listener>>

\* Mutant of clearAll: the initial-state mapping is not cleared
clearAll_KeepInitial ==
    /\ Step
    /\ states' = {}
    /\ events' = {}
    /\ last' = [Call("clearAll") EXCEPT !.fsmNotes = <<<<"fsm.cleared", Null>>>>]
    /\ UNCHANGED <<sobj, eobj, initialStates, tokenInstances, allowSelfTransition,
                   listener>>

clearAll ==
    /\ Step
    /\ states' = {}
    /\ events' = {}
    /\ initialStates' = <<>>
    /\ last' = [Call("clearAll") EXCEPT !.fsmNotes = <<<<"fsm.cleared", Null>>>>]
    /\ UNCHANGED <<sobj, eobj, tokenInstances, allowSelfTransition, listener>>

\* addState(stateName, stateId?) and addFinalState(stateName, stateId?)
AddStateOp(op, topic, stateName, idArg, isFinal) ==
    LET stateId == IF idArg = <<>> THEN Cardinality(states) ELSE idArg[1]
        new == Len(sobj) + 1
        so1 == Append(sobj, NewState(stateId, stateName, isFinal))
        reg1 == states \cup {new}
        si == IF Cardinality(DOMAIN initialStates) = 0
              THEN SetInitialState(so1, reg1, initialStates, new, "")
              ELSE [ok |-> TRUE, sobj |-> so1, init |-> initialStates, notes |-> <<>>]
    IN /\ Step
       /\ Len(sobj) < MaxStates
       /\ IF getStateById(sobj, states, stateId) # Null
          THEN /\ last' = [Call(op) EXCEPT !.outcome = "DuplicateIdentity",
                                           !.idArg = idArg]
               /\ UNCHANGED <<sobj, states, initialStates>>
          ELSE /\ sobj' = si.sobj
               /\ states' = reg1
               /\ initialStates' = si.init
               /\ last' = [Call(op) EXCEPT !.ret = new, !.idArg = idArg,
                              !.fsmNotes = si.notes \o <<<<topic, new>>>>]
       /\ UNCHANGED <<eobj, events, tokenInstances, allowSelfTransition, listener>>

addState(stateName, idArg) ==
    AddStateOp("addState", "fsm.state.added", stateName, idArg, FALSE)

addFinalState(stateName, idArg) ==
    AddStateOp("addFinalState", "fsm.state.final.added", stateName, idArg, TRUE)

addEvent(eventName, idArg) ==
    LET eventId == IF idArg = <<>> THEN Cardinality(events) ELSE idArg[1]
        new == Len(eobj) + 1
    IN /\ Step
       /\ Len(eobj) < MaxEvents
       /\ IF getEvent(Id(eventId)) # Null
          THEN /\ last' = [Call("addEvent") EXCEPT !.outcome = "DuplicateIdentity",
                                                   !.idArg = idArg]
               /\ UNCHANGED <<eobj, events>>
          ELSE /\ eobj' = Append(eobj, NewEvent(eventId, eventName))
               /\ events' = events \cup {new}
               /\ last' = [Call("addEvent") EXCEPT !.ret = new, !.idArg = idArg,
                              !.fsmNotes = <<<<"fsm.event.added", new>>>>]
       /\ UNCHANGED <<sobj, states, initialStates, tokenInstances,
                      allowSelfTransition, listener>>

setInitialState(state, regionArg) ==
    LET si == SetInitialState(sobj, states, initialStates, state, regionArg) IN
    /\ Step
    /\ sobj' = si.sobj
    /\ initialStates' = si.init
    /\ last' = [Call("setInitialState") EXCEPT !.st = state,
                   !.region = IF regionArg = "" THEN FsmName ELSE regionArg,
                   !.outcome = IF si.ok THEN "ok" ELSE "false",
                   !.fsmNotes = si.notes]
    /\ UNCHANGED <<eobj, states, events, tokenInstances, allowSelfTransition, listener>>

\* addStateTransition(currentState, onEvent, nextState)
addStateTransition(currentState, onEvent, nextState) ==
    LET r == AddStateTransition(sobj, ResolveState(currentState), ResolveEvent(onEvent),
                                ResolveState(nextState)) IN
    /\ Step
    /\ sobj' = r.sobj
    /\ last' = [Call("addStateTransition") EXCEPT
                   !.st = ResolveState(currentState), !.evArg = onEvent,
                   !.next = ResolveState(nextState),
                   !.outcome = IF r.err = "" THEN "ok" ELSE r.err,
                   !.fsmNotes = r.notes]
    /\ UNCHANGED <<eobj, states, events, initialStates, tokenInstances,
                   allowSelfTransition, listener>>

removeStateTransition(currentState, onEvent) ==
    LET r == RemoveStateTransition(sobj, ResolveState(currentState), ResolveEvent(onEvent)) IN
    /\ Step
    /\ sobj' = r.sobj
    /\ last' = [Call("removeStateTransition") EXCEPT
                   !.st = ResolveState(currentState),
                   !.outcome = IF r.err = "" THEN "ok" ELSE r.err,
                   !.fsmNotes = r.notes]
    /\ UNCHANGED <<eobj, states, events, initialStates, tokenInstances,
                   allowSelfTransition, listener>>

addStateTransitionForAllStates(onEvent, nextState) ==
    LET e == ResolveEvent(onEvent)
        n == ResolveState(nextState)
        step == [k \in DOMAIN sobj |-> AddStateTransition(sobj, k, e, n)]
        r == ForEachState(sobj, step)
    IN /\ Step
       /\ IF e = Null \/ n = Null
          THEN /\ last' = [Call("addStateTransitionForAllStates") EXCEPT
                              !.evArg = onEvent, !.next = n,
                              !.outcome = "IncompleteTransitionInput"]
               /\ UNCHANGED sobj
          ELSE /\ sobj' = r.sobj
               /\ last' = [Call("addStateTransitionForAllStates") EXCEPT
                              !.evArg = onEvent, !.next = n, !.fsmNotes = r.notes]
       /\ UNCHANGED <<eobj, states, events, initialStates, tokenInstances,
                      allowSelfTransition, listener>>

removeAllStatesTransitionForEvent(onEvent) ==
    LET e == ResolveEvent(onEvent)
        step == [k \in DOMAIN sobj |-> RemoveStateTransition(sobj, k, e)]
        r == ForEachState(sobj, step)
    IN /\ Step
       /\ IF e = Null
          THEN /\ last' = [Call("removeAllStatesTransitionForEvent") EXCEPT
                              !.evArg = onEvent,
                              !.outcome = "IncompleteTransitionInput"]
               /\ UNCHANGED sobj
          ELSE /\ sobj' = r.sobj
               /\ last' = [Call("removeAllStatesTransitionForEvent") EXCEPT
                              !.evArg = onEvent, !.fsmNotes = r.notes]
       /\ UNCHANGED <<eobj, states, events, initialStates, tokenInstances,
                      allowSelfTransition, listener>>

\* FsmState.equals(otherState) and FsmEvent.equals(otherEvent), the argument
\* an object, a number, a string or undefined
State_equals_call(state, other) ==
    /\ Step
    /\ last' = [Call("FsmState.equals") EXCEPT !.st = state, !.arg = other,
                   !.bool = State_equals(sobj[state], other)]
    /\ UNCHANGED <<sobj, eobj, states, events, initialStates, tokenInstances,
                   allowSelfTransition, listener>>

Event_equals_call(event, other) ==
    /\ Step
    /\ last' = [Call("FsmEvent.equals") EXCEPT !.evArg = Obj(event), !.arg = other,
                   !.bool = Event_equals(eobj[event], other)]
    /\ UNCHANGED <<sobj, eobj, states, events, initialStates, tokenInstances,
                   allowSelfTransition, listener>>

\* The transition queries of the engine
Query(c) ==
    /\ Step
    /\ last' = c
    /\ UNCHANGED <<sobj, eobj, states, events, initialStates, tokenInstances,
                   allowSelfTransition, listener>>

\* (named apart from the nextState arguments of the operations below)
nextStateQuery(currentState, onEvent) ==
    Query([Call("nextState") EXCEPT
              !.st = ResolveState(currentState), !.evArg = onEvent,
              !.ret = Fsm_nextState(ResolveState(currentState), ResolveEvent(onEvent))])

isTransitionValid(currentState, onEvent, newState) ==
    Query([Call("isTransitionValid") EXCEPT
              !.st = ResolveState(currentState), !.evArg = onEvent,
              !.next = ResolveState(newState),
              !.bool = Fsm_isTransitionValid(ResolveState(currentState),
                           ResolveEvent(onEvent), ResolveState(newState))])

isTransitionValidByEvent(currentState, onEvent) ==
    Query([Call("isTransitionValidByEvent") EXCEPT
              !.st = ResolveState(currentState), !.evArg = onEvent,
              !.bool = Fsm_isTransitionValidByEvent(ResolveState(currentState),
                           ResolveEvent(onEvent))])

\* FsmState.addTransition called on the State object itself
addTransition(state, onEvent, nextState, output) ==
    LET r == State_addTransition(sobj, state, onEvent, nextState, output) IN
    /\ Step
    /\ sobj' = [sobj EXCEPT ![state] = r.o]
    /\ last' = [Call("addTransition") EXCEPT !.st = state, !.next = nextState,
                   !.evArg = IF onEvent = Null THEN NoArg ELSE Obj(onEvent),
                   !.outcome = IF r.err = "" THEN "ok" ELSE r.err]
    /\ UNCHANGED <<eobj, states, events, initialStates, tokenInstances,
                   allowSelfTransition, listener>>

\* FsmState.removeTransition called on the State object itself
removeTransition(state, onEvent) ==
    LET r == State_removeTransition(sobj, state, onEvent) IN
    /\ Step
    /\ sobj' = [sobj EXCEPT ![state] = r.o]
    /\ last' = [Call("removeTransition") EXCEPT !.st = state,
                   !.outcome = IF r.err = "" THEN "ok" ELSE r.err]
    /\ UNCHANGED <<eobj, states, events, initialStates, tokenInstances,
                   allowSelfTransition, listener>>

markNonDeterministic(state) ==
    /\ Step
    /\ sobj' = [sobj EXCEPT ![state].isDeterministic = FALSE]
    /\ last' = [Call("markNonDeterministic") EXCEPT !.st = state]
    /\ UNCHANGED <<eobj, states, events, initialStates, tokenInstances,
                   allowSelfTransition, listener>>

markDeterministic(state) ==
    /\ Step
    /\ sobj' = [sobj EXCEPT ![state].isDeterministic = TRUE]
    /\ last' = [Call("markDeterministic") EXCEPT !.st = state]
    /\ UNCHANGED <<eobj, states, events, initialStates, tokenInstances,
                   allowSelfTransition, listener>>

\* FsmState.executeOutput(input): runs the attached function when its
\* arity is 0, 1 or 2
executeOutput(state, input) ==
    LET nextOutput == State_nextOutput(sobj[state], input)
        ran == /\ nextOutput # <<>>
               /\ \/ nextOutput[1] = 0
                  \/ nextOutput[1] = 1
                  \/ nextOutput[1] = 2 /\ input # Null
    IN /\ Step
       /\ last' = [Call("executeOutput") EXCEPT !.st = state,
                      !.outputs = IF ran THEN 1 ELSE 0]
       /\ UNCHANGED <<sobj, eobj, states, events, initialStates, tokenInstances,
                      allowSelfTransition, listener>>

\* set allowSelfTransition(allow)
setAllowSelfTransition(allow) ==
    /\ Step
    /\ allowSelfTransition' = allow
    /\ last' = Call("allowSelfTransition")
    /\ UNCHANGED <<sobj, eobj, states, events, initialStates, tokenInstances, listener>>

\* get listener(): creates the token-channel emitter on first use
getListener ==
    /\ Step
    /\ listener' = TRUE
    /\ last' = Call("listener")
    /\ UNCHANGED <<sobj, eobj, states, events, initialStates, tokenInstances,
                   allowSelfTransition>>

createTokenInstance(tokenId, regionArg) ==
    LET r == CreateTokenInstance(tokenId, regionArg) IN
    /\ Step
    /\ tokenInstances' = r.tokens
    /\ last' = [Call("createTokenInstance") EXCEPT !.tok = tokenId,
                   !.region = IF regionArg = "" THEN FsmName ELSE regionArg,
                   !.outcome = IF r.err = "" THEN "ok" ELSE r.err,
                   !.ret = r.token, !.trace = r.trace]
    /\ UNCHANGED <<sobj, eobj, states, events, initialStates, allowSelfTransition, listener>>

getTokenInstance(tokenId, autoCreate, regionArg) ==
    LET r == GetTokenInstance(tokenId, autoCreate, regionArg) IN
    /\ Step
    /\ tokenInstances' = r.tokens
    /\ last' = [Call("getTokenInstance") EXCEPT !.tok = tokenId,
                   !.autoCreate = autoCreate,
                   !.region = IF regionArg = "" THEN FsmName ELSE regionArg,
                   !.outcome = IF r.err = "" THEN "ok" ELSE r.err,
                   !.ret = r.token, !.trace = r.trace]
    /\ UNCHANGED <<sobj, eobj, states, events, initialStates, allowSelfTransition, listener>>

updateTokenToNextState(tokenId, onEvent, alt) ==
    LET r == UpdateTokenToNextState(tokenId, onEvent, alt) IN
    /\ Step
    /\ tokenInstances' = r.tokens
    /\ last' = r.call
    /\ UNCHANGED <<sobj, eobj, states, events, initialStates, allowSelfTransition, listener>>

Next ==
    \/ clearAll
    \/ \E n \in StateNames, i \in IdArgs : addState(n, i)
    \/ \E n \in StateNames, i \in IdArgs : addFinalState(n, i)
    \/ \E n \in EventNames, i \in IdArgs : addEvent(n, i)
    \/ \E s \in StateRefs, r \in RegionArgs : setInitialState(s, r)
    \/ \E a \in TransitionArgs : addStateTransition(a[1], a[2], a[3])
    \/ \E c \in StateArgs, e \in EventArgs : removeStateTransition(c, e)
    \/ \E e \in EventArgs, n \in StateArgs : addStateTransitionForAllStates(e, n)
    \/ \E e \in EventArgs : removeAllStatesTransitionForEvent(e)
    \/ \E s \in StateRefs : \E o \in StateEqualsArgs(s) : State_equals_call(s, o)
    \/ \E e \in EventRefs : \E o \in EventEqualsArgs(e) : Event_equals_call(e, o)
    \/ \E a \in QueryArgs : nextStateQuery(a[1], a[2])
    \/ \E a \in TransitionArgs : isTransitionValid(a[1], a[2], a[3])
    \/ \E a \in QueryArgs : isTransitionValidByEvent(a[1], a[2])
    \/ \E s \in StateRefs, a \in EdgeArgs, f \in OutputArgs : addTransition(s, a[1], a[2], f)
    \/ \E s \in StateRefs, e \in {Null} \cup EventRefs : removeTransition(s, e)
    \/ \E s \in StateRefs : markNonDeterministic(s)
    \/ \E s \in StateRefs : markDeterministic(s)
    \/ \E s \in StateRefs, e \in {Null} \cup EventRefs : executeOutput(s, e)
    \/ \E b \in BOOLEAN : setAllowSelfTransition(b)
    \/ getListener
    \/ \E t \in TokenArgs, r \in RegionArgs : createTokenInstance(t, r)
    \/ \E t \in TokenArgs, c \in BOOLEAN, r \in RegionArgs : getTokenInstance(t, c, r)
    \/ \E t \in TokenArgs, e \in EventArgs, a \in AltArgs : updateTokenToNextState(t, e, a)

Spec == Init /\ [][Next]_vars

\* ------------------------------------------------- the traffic-light run
\* The engine after the driver's wiring, before "Running FSM v1.1"
TrafficInit ==
    /\ sobj = TrafficStates
    /\ eobj = TrafficEvents
    /\ states = {Red, Yellow, Green, Damaged}
    /\ events = {NoCar, Secs_10, Secs_60, Secs_90, Secs_600}
    /\ initialStates = SetInitialState(TrafficStates, {Red}, <<>>, Red, "").init
    /\ tokenInstances = <<>>
    /\ allowSelfTransition = TRUE
    /\ listener \in BOOLEAN
    /\ last = Call("new")
    /\ calls = 0
    /\ script = <<>>
    /\ pending = NoPending

\* An event given as the object, as its id or as its name, or one the
\* engine does not have
TrafficEventArgs ==
    {Obj(i) : i \in EventRefs} \cup {Id(eobj[i].eventId) : i \in EventRefs}
    \cup {Name(eobj[i].eventName) : i \in EventRefs} \cup {Name("Secs_5")}

ScriptStep == calls < MaxScriptCalls /\ calls' = calls + 1 /\ UNCHANGED pending

\* fsm.createTokenInstance('trafficLight')
TrafficCreate ==
    LET r == CreateTokenInstance(TrafficToken, "") IN
    /\ ScriptStep
    /\ tokenInstances' = r.tokens
    /\ last' = [Call("createTokenInstance") EXCEPT !.tok = TrafficToken,
                   !.outcome = IF r.err = "" THEN "ok" ELSE r.err,
                   !.ret = r.token, !.trace = r.trace]
    /\ script' = RunAfter("createTokenInstance")
    /\ UNCHANGED <<sobj, eobj, states, events, initialStates, allowSelfTransition, listener>>

\* fsm.updateTokenToNextState('trafficLight', onEvent)
TrafficUpdate(onEvent) ==
    LET r == UpdateTokenToNextState(TrafficToken, onEvent, NoAlt)
        e == ResolveEvent(onEvent)
    IN /\ ScriptStep
       /\ tokenInstances' = r.tokens
       /\ last' = r.call
       /\ script' = RunAfter(IF e = Null THEN "" ELSE eobj[e].eventName)
       /\ UNCHANGED <<sobj, eobj, states, events, initialStates, allowSelfTransition,
                      listener>>

TrafficNext ==
    \/ TrafficCreate
    \/ \E e \in TrafficEventArgs : TrafficUpdate(e)

TrafficSpec == TrafficInit /\ [][TrafficNext]_vars

\* ------------------------------------- handlers of the transit topics
\* The wired machine with a handler attached to the transit topics through
\* fsm.listener.on(topic, handler): the listener accessor has been used
ReentrantInit ==
    /\ sobj = WiredStates
    /\ eobj = WiredEvents
    /\ states = 1..3
    /\ events = 1..2
    /\ initialStates = SetInitialState(WiredStates, {1}, <<>>, 1, "").init
    /\ tokenInstances = <<>>
    /\ allowSelfTransition = TRUE
    /\ listener = TRUE
    /\ last = Call("new")
    /\ calls = 0
    /\ script = NoScript
    /\ pending = NoPending

\* What the outer call's record keeps of the call its handler made last
HandlerCall(c) ==
    IF c.outcome = "notifying" THEN <<>>
    ELSE <<[op |-> c.op, tok |-> c.tok, outcome |-> c.outcome, ret |-> c.ret]>>

\* The trace of a successful advancement up to and including the emit of its
\* transit topic
UpToEmit(trace) == SubSeq(trace, 1, Len(trace) - 1)

\* updateTokenToNextState(tokenId, onEvent, altStateTable?) up to the emit of
\* its transit topic, which calls the handler synchronously: a call that
\* fails before the emit is over at once
notifyTransit(tokenId, onEvent, alt) ==
    LET r == UpdateTokenToNextState(tokenId, onEvent, alt)
        g == GetTokenInstance(tokenId, TRUE, "")
    IN /\ pending = NoPending
       /\ calls < MaxCalls
       /\ calls' = calls + 1
       /\ IF r.call.outcome = "ok"
          THEN /\ tokenInstances' = BindingAtNotify(g.tokens, tokenId, r.call.ret)
               /\ pending' = [tok |-> tokenId, next |-> r.call.ret, call |-> r.call]
               /\ last' = [r.call EXCEPT !.outcome = "notifying", !.ret = Null,
                                         !.trace = UpToEmit(r.call.trace)]
          ELSE /\ tokenInstances' = r.tokens
               /\ pending' = NoPending
               /\ last' = r.call
       /\ UNCHANGED <<sobj, eobj, states, events, initialStates, allowSelfTransition,
                      listener, script>>

\* The handler has returned, and so has the emit: the call writes its
\* binding and returns the State it resolved before the emit
updateReturns ==
    /\ pending # NoPending
    /\ tokenInstances' = BindingAtReturn(tokenInstances, pending.tok, pending.next)
    /\ last' = [pending.call EXCEPT !.handler = HandlerCall(last)]
    /\ pending' = NoPending
    /\ UNCHANGED <<sobj, eobj, states, events, initialStates, allowSelfTransition,
                   listener, calls, script>>

\* The handler lets the error of the call it made escape: emit rethrows it
\* and the outer call ends before its write
handlerThrows ==
    /\ pending # NoPending
    /\ last.outcome \notin {"ok", "notifying"}
    /\ last' = [pending.call EXCEPT !.outcome = last.outcome, !.ret = Null,
                                    !.trace = UpToEmit(pending.call.trace),
                                    !.handler = HandlerCall(last)]
    /\ pending' = NoPending
    /\ UNCHANGED <<sobj, eobj, states, events, initialStates, tokenInstances,
                   allowSelfTransition, listener, calls, script>>

\* The calls a handler makes are calls like any other: it reads the token or
\* advances it, the same token or another one
ReentrantNext ==
    \/ \E t \in TokenArgs, e \in EventArgs, a \in AltArgs : notifyTransit(t, e, a)
    \/ \E t \in TokenArgs, c \in BOOLEAN, r \in RegionArgs : getTokenInstance(t, c, r)
    \/ \E t \in TokenArgs, e \in EventArgs, a \in AltArgs : updateTokenToNextState(t, e, a)
    \/ updateReturns
    \/ handlerThrows

ReentrantSpec == ReentrantInit /\ [][ReentrantNext]_vars

\* ------------------------------------------------------------ properties
Range(s) == {s[i] : i \in 1..Len(s)}
Count(s, x) == Cardinality({i \in 1..Len(s) : s[i] = x})
Before(s, x, y) ==
    \E i, j \in 1..Len(s) : s[i] = x /\ s[j] = y /\ i < j

IsUpdate(c) == c.op = "updateTokenToNextState"

\* The State an advancement of token t starts from: its binding, or for a
\* token not yet bound the default region's initial State
CurrentOf(t) ==
    IF t \in DOMAIN tokenInstances THEN tokenInstances[t]
    ELSE getInitialState(initialStates, "")

\* The entry of State c's transition table for event e, Null for none
EdgeTarget(c, e) ==
    IF c # Null /\ e # Null /\ e \in DOMAIN sobj[c].transitionTable
    THEN sobj[c].transitionTable[e] ELSE Null

\* The binding of token t after a failed advancement is the State it
\* started from, and a token bound before the call leaves the map as it was
Unmoved(t) ==
    /\ t \in DOMAIN tokenInstances => tokenInstances' = tokenInstances
    /\ t \in DOMAIN tokenInstances'
    /\ tokenInstances'[t] = CurrentOf(t)

Tentative(c) == EdgeTarget(c.st, ResolveEvent(c.evArg))

\* C2: an advancement whose structurally-defined next State is
\* non-deterministic, called with a resolver that returns a State R, binds
\* the token to R and returns R whatever the tentative target was, and the
\* non-deterministic-transition notification precedes the resolver call.
C2_ResolverDecides ==
    (/\ IsUpdate(last) /\ last.st # Null /\ last.alt.given /\ last.alt.ret # Null
     /\ Tentative(last) # Null /\ ~sobj[Tentative(last)].isDeterministic)
    => /\ last.outcome = "ok"
       /\ last.ret = last.alt.ret
       /\ last.tok \in DOMAIN tokenInstances
       /\ tokenInstances[last.tok] = last.alt.ret
       /\ Count(last.trace, "altStateTable()") = 1
       /\ listener => Before(last.trace, "token.transit.nd", "altStateTable()")

C2_Witness ==
    /\ IsUpdate(last) /\ last.outcome = "ok" /\ last.alt.given /\ listener
    /\ Tentative(last) # Null /\ ~sobj[Tentative(last)].isDeterministic
    /\ Tentative(last) # last.alt.ret
    /\ tokenInstances[last.tok] = last.alt.ret
    /\ Before(last.trace, "token.transit.nd", "altStateTable()")

C4_FailedCallChangesNothing ==
    [][(/\ last'.outcome \notin {"ok", "false"}
        /\ last'.op \notin {"addStateTransitionForAllStates",
                            "removeAllStatesTransitionForEvent"})
       => UNCHANGED <<sobj, eobj, states, events, initialStates, tokenInstances>>]_vars

\* C5: every token binding is a State of the state registry.
C5_TokensBelongToEngine ==
    \A t \in DOMAIN tokenInstances :
        tokenInstances[t] # Null /\ tokenInstances[t] \in states

\* C6: a successful advancement along an edge that has an output function
\* attached runs that function exactly once, before the binding is
\* written; a failed advancement runs none.
C6_OutputRunsOnce ==
    IsUpdate(last) =>
        IF last.outcome = "ok"
        THEN State_nextOutput(sobj[last.st], ResolveEvent(last.evArg)) # <<>>
                => /\ last.outputs = 1
                   /\ Before(last.trace, "output()", "tokenInstances.set")
        ELSE last.outputs = 0

\* The three topics of a successful advancement
TransitTopics == {"token.state.changed.self", "token.state.changed", "token.state.final"}

TransitNotes(c) == {i \in 1..Len(c.trace) : c.trace[i] \in TransitTopics}

OneTransitNote(c, topic) ==
    \E i \in TransitNotes(c) : TransitNotes(c) = {i} /\ c.trace[i] = topic

ErrorTopics == {"error.notfound.tokenid", "error.notfound.state", "error.notfound.event",
                "error.notfound.statetable.nd", "token.state.invalid.change"}

\* C8: with a token listener attached, every advancement that raises an
\* error publishes an error notification on the token channel.
C8_EveryFailureIsMirrored ==
    (IsUpdate(last) /\ last.outcome # "ok" /\ listener)
    => Range(last.trace) \cap ErrorTopics # {}

TransitionCalls == {"addTransition", "removeTransition",
                    "addStateTransition", "removeStateTransition"}

\* C9: a State created by addFinalState never has an outbound edge, and
\* every addTransition / removeTransition on it, direct or through the
\* engine, raises an error.
C9_FinalStateTakesNoEdges ==
    /\ \A i \in StateRefs : sobj[i].isFinalState => DOMAIN sobj[i].transitionTable = {}
    /\ (last.op \in TransitionCalls /\ last.st # Null /\ sobj[last.st].isFinalState)
          => last.outcome \notin {"ok", "false"}

C9_Witness ==
    /\ last.op \in TransitionCalls /\ last.st # Null /\ sobj[last.st].isFinalState
    /\ last.outcome = "FinalStateMutation"
    /\ \E i \in StateRefs, e \in EventRefs : EdgeTarget(i, e) = last.st

\* C10: once a token is bound to a State created final, every later
\* advancement of it fails, with or without a resolver, and the binding
\* stays that State.
C10_FinalBindingIsForever ==
    [][\A t \in DOMAIN tokenInstances :
          sobj[tokenInstances[t]].isFinalState
          => /\ t \in DOMAIN tokenInstances'
             /\ tokenInstances'[t] = tokenInstances[t]
             /\ (IsUpdate(last') /\ last'.tok = t) => last'.outcome # "ok"]_vars

C10_Witness ==
    /\ IsUpdate(last) /\ last.outcome = "InvalidStateChange" /\ last.alt.given
    /\ last.alt.ret # Null
    /\ last.st # Null /\ sobj[last.st].isFinalState
    /\ tokenInstances[last.tok] = last.st
    /\ "tokenInstances.set" \notin Range(last.trace)
\* C11: in the traffic-light machine a token created at the default region
\* starts on Red; after each of the three rounds of updates with Secs_60,
\* Secs_90, Secs_10 it is bound to Red, and one more update with Secs_600
\* binds it to Damaged; every call of the run succeeds.
C11_TrafficLightRun ==
    (script # NoScript /\ Len(script) > 0)
    => /\ last.outcome = "ok"
       /\ TrafficToken \in DOMAIN tokenInstances
       /\ Len(script) \in {1, 4, 7, 10} => tokenInstances[TrafficToken] = Red
       /\ Len(script) = 11 => tokenInstances[TrafficToken] = Damaged
       /\ last.ret = tokenInstances[TrafficToken]

C11_Witness ==
    /\ script = TrafficRun
    /\ tokenInstances[TrafficToken] = Damaged
    /\ sobj[Damaged].stateName = "Damaged" /\ sobj[Damaged].stateId = -1
\* C12: a transition table holds one next State per Event key.  An
\* addTransition for a (State, Event) that already has an edge succeeds and
\* leaves both tables as they are when the next State given equals the
\* edge's target, and raises the conflict error and leaves the edge as it is
\* when it does not; the same through addStateTransition while
\* self-transitions are allowed.
C12_OneEdgePerEvent ==
    [][LET c == last'
           e == ResolveEvent(c.evArg)
           old == EdgeTarget(c.st, e)
       IN (/\ \/ c.op = "addTransition"
              \/ c.op = "addStateTransition" /\ allowSelfTransition
           /\ c.st # Null /\ c.next # Null /\ old # Null)
          => /\ sobj' = sobj
             /\ IF State_equalsObj(sobj[old], sobj[c.next])
                THEN c.outcome = "ok"
                ELSE c.outcome = "TransitionConflict"]_vars

\* A conflicting addTransition that carried an output function was refused
C12_Witness ==
    /\ last.op = "addTransition" /\ last.outcome = "TransitionConflict"
    /\ EdgeTarget(last.st, ResolveEvent(last.evArg)) # Null
    /\ EdgeTarget(last.st, ResolveEvent(last.evArg)) # last.next
    /\ State_nextOutput(sobj[last.st], ResolveEvent(last.evArg)) # <<>>
\* The registered States and Events with a given id
StatesWithId(id) == {i \in states : sobj[i].stateId = id}
EventsWithId(id) == {i \in events : eobj[i].eventId = id}

\* C13: addState, addFinalState and addEvent called with an explicit id that
\* is registered raise the duplicate error and change nothing; called with
\* an explicit id that is not registered they succeed and register exactly
\* one new entry, under that id, leaving the other entries as they were.
C13_ExplicitIdIsUnique ==
    [][LET c == last' IN
       /\ (c.op \in {"addState", "addFinalState"} /\ c.idArg # <<>>)
          => IF StatesWithId(c.idArg[1]) # {}
             THEN /\ c.outcome = "DuplicateIdentity"
                  /\ UNCHANGED <<sobj, eobj, states, events, initialStates, tokenInstances>>
             ELSE /\ c.outcome = "ok"
                  /\ c.ret \notin states /\ states' = states \cup {c.ret}
                  /\ sobj'[c.ret].stateId = c.idArg[1]
                  /\ sobj'[c.ret].isFinalState = (c.op = "addFinalState")
                  /\ \A i \in states : sobj'[i].stateId = sobj[i].stateId
                  /\ UNCHANGED <<eobj, events>>
       /\ (c.op = "addEvent" /\ c.idArg # <<>>)
          => IF EventsWithId(c.idArg[1]) # {}
             THEN /\ c.outcome = "DuplicateIdentity"
                  /\ UNCHANGED <<sobj, eobj, states, events, initialStates, tokenInstances>>
             ELSE /\ c.outcome = "ok"
                  /\ c.ret \notin events /\ events' = events \cup {c.ret}
                  /\ eobj'[c.ret].eventId = c.idArg[1]
                  /\ \A i \in events : eobj'[i] = eobj[i]
                  /\ UNCHANGED <<sobj, states, initialStates>>]_vars

\* addState with the id of a registered final State was refused, and that
\* State is still the one registered under the id
C13_Witness ==
    /\ last.op = "addState" /\ last.idArg # <<>>
    /\ last.outcome = "DuplicateIdentity"
    /\ \E i \in StatesWithId(last.idArg[1]) :
          StatesWithId(last.idArg[1]) = {i} /\ sobj[i].isFinalState
AddOps == {"addState", "addFinalState"}

\* C14: the first State added to an engine that has none, by addState or
\* addFinalState, new or after clearAll, becomes the initial State of the
\* default region and reports isInitialState(); every later addState or
\* addFinalState leaves the initial State of every region as it is.
C14_FirstStateIsInitial ==
    [][LET c == last' IN
       (c.op \in AddOps /\ c.outcome = "ok")
       => IF states = {}
          THEN /\ getInitialState(initialStates', "") = c.ret
               /\ isInitialState(sobj'[c.ret])
               /\ sobj'[c.ret].initialStateRegionName = FsmName
          ELSE initialStates' = initialStates]_vars

\* A final State added after clearAll became the initial State
C14_Witness ==
    /\ last.op = "addFinalState" /\ last.outcome = "ok"
    /\ states = {last.ret} /\ last.ret > 1
    /\ getInitialState(initialStates, "") = last.ret
    /\ isInitialState(sobj[last.ret])
\* C15: a successful setInitialState(T, r) makes the registered State T the
\* initial State of r and tags it with r; the State S that held r before,
\* when it is another State, no longer reports isInitialState(); and no
\* setInitialState, addState or addFinalState leaves a region that had an
\* initial State without one.
C15_SetInitialReplaces ==
    [][LET c == last'
           T == IF c.st = Null THEN Null
                ELSE getStateByIdName(sobj, states, sobj[c.st].stateId, sobj[c.st].stateName)
           S == getInitialState(initialStates, c.region)
       IN /\ (c.op = "setInitialState" /\ c.outcome = "ok")
             => /\ T # Null
                /\ getInitialState(initialStates', c.region) = T
                /\ isInitialState(sobj'[T])
                /\ sobj'[T].initialStateRegionName = c.region
                /\ (S # Null /\ S # T) => ~isInitialState(sobj'[S])
          /\ (c.op \in AddOps \cup {"setInitialState"})
             => \A r \in DOMAIN initialStates :
                   r \in DOMAIN initialStates' /\ initialStates'[r] # Null]_vars

\* The default region's initial State was replaced by another State, and
\* the State the wiring had made initial reports it no longer
C15_Witness ==
    /\ last.op = "setInitialState" /\ last.outcome = "ok"
    /\ last.region = FsmName /\ last.st # 1
    /\ getInitialState(initialStates, "") = last.st
    /\ 1 \in states /\ ~isInitialState(sobj[1])
\* C16: every registered State is the initial State of at most one region,
\* and a registered State reports isInitialState() with region tag r exactly
\* when the engine's initial State of r is that State.
C16_InitialViewsAgree ==
    \A i \in states :
        /\ Cardinality({r \in DOMAIN initialStates : initialStates[r] = i}) <= 1
        /\ \A r \in (DOMAIN initialStates \cup {sobj[i].initialStateRegionName}) \ {""} :
              (isInitialState(sobj[i]) /\ sobj[i].initialStateRegionName = r)
              <=> (r \in DOMAIN initialStates /\ initialStates[r] = i)
\* C17: addStateTransition(S, e, S) raises the self-transition error and
\* changes no table while allowSelfTransition is false; while it is true, on
\* a non-final State S whose edge for e, if any, leads to S, it succeeds and
\* nextState(S, e) is S afterwards.
C17_SelfTransitionFlag ==
    [][LET c == last'
           e == ResolveEvent(c.evArg)
       IN (c.op = "addStateTransition" /\ c.st # Null /\ c.next = c.st /\ e # Null)
          => IF ~allowSelfTransition
             THEN c.outcome = "SelfTransitionDisallowed" /\ sobj' = sobj
             ELSE (~sobj[c.st].isFinalState /\ EdgeTarget(c.st, e) \in {Null, c.st})
                  => /\ c.outcome = "ok"
                     /\ State_nextState(sobj'[c.st], e) = c.st]_vars

\* A self-transition on a State with no edge for the event was refused
C17_Witness ==
    /\ last.op = "addStateTransition" /\ last.outcome = "SelfTransitionDisallowed"
    /\ ~allowSelfTransition
    /\ last.st # Null /\ last.next = last.st /\ ~sobj[last.st].isFinalState
    /\ ResolveEvent(last.evArg) # Null
    /\ EdgeTarget(last.st, ResolveEvent(last.evArg)) = Null
\* The engine's initial State of region r, Null for none
RegionInitial(r) == IF r \in DOMAIN initialStates THEN initialStates[r] ELSE Null

\* Token t is bound to State st by the step and no other binding changes
BindsOnly(t, st) ==
    /\ DOMAIN tokenInstances' = DOMAIN tokenInstances \cup {t}
    /\ tokenInstances'[t] = st
    /\ \A u \in DOMAIN tokenInstances \ {t} : tokenInstances'[u] = tokenInstances[u]

\* C18: createTokenInstance(tokenId, region) raises an error, changes nothing
\* and publishes no token-created notification when the id is blank, when
\* the token exists, or when the region (the engine's name by default) has
\* no initial State; otherwise it binds the token to the region's initial
\* State, returns that State and publishes one token-created notification.
C18_CreateToken ==
    [][LET c == last'
           init == RegionInitial(c.region)
       IN c.op = "createTokenInstance"
          => IF IsBlank(c.tok) \/ c.tok \in DOMAIN tokenInstances \/ init = Null
             THEN /\ c.outcome # "ok"
                  /\ "token.new" \notin Range(c.trace)
                  /\ UNCHANGED <<sobj, eobj, states, events, initialStates, tokenInstances>>
             ELSE /\ c.outcome = "ok" /\ c.ret = init
                  /\ c.tok \notin DOMAIN tokenInstances
                  /\ BindsOnly(c.tok, init)
                  /\ Count(c.trace, "token.new") = (IF listener THEN 1 ELSE 0)
                  /\ UNCHANGED <<sobj, eobj, states, events, initialStates>>]_vars

\* A token was created at a region whose initial State is not the default
\* region's
C18_Witness ==
    /\ last.op = "createTokenInstance" /\ last.outcome = "ok" /\ listener
    /\ last.region # FsmName
    /\ tokenInstances[last.tok] = RegionInitial(last.region)
    /\ RegionInitial(last.region) # RegionInitial(FsmName)
    /\ "token.new" \in Range(last.trace)
\* C19: getTokenInstance(tokenId, autoCreate, region) on a token that exists
\* returns its binding and changes nothing, whatever the region; on one
\* that does not exist it creates the token as createTokenInstance does when
\* autoCreate is true, and when autoCreate is false it publishes the
\* token-id-not-found notification, raises and binds nothing.
C19_GetToken ==
    [][LET c == last'
           init == RegionInitial(c.region)
       IN (c.op = "getTokenInstance" /\ ~IsBlank(c.tok))
          => IF c.tok \in DOMAIN tokenInstances
             THEN /\ c.outcome = "ok" /\ c.ret = tokenInstances[c.tok]
                  /\ c.trace = <<>>
                  /\ UNCHANGED <<sobj, eobj, states, events, initialStates, tokenInstances>>
             ELSE IF ~c.autoCreate
             THEN /\ c.outcome = "TokenNotFound"
                  /\ listener => Count(c.trace, "error.notfound.tokenid") = 1
                  /\ UNCHANGED <<sobj, eobj, states, events, initialStates, tokenInstances>>
             ELSE IF init = Null
             THEN /\ c.outcome # "ok"
                  /\ "token.new" \notin Range(c.trace)
                  /\ UNCHANGED <<sobj, eobj, states, events, initialStates, tokenInstances>>
             ELSE /\ c.outcome = "ok" /\ c.ret = init
                  /\ BindsOnly(c.tok, init)
                  /\ Count(c.trace, "token.new") = (IF listener THEN 1 ELSE 0)
                  /\ UNCHANGED <<sobj, eobj, states, events, initialStates>>]_vars

\* An existing token was looked up under a region that has no initial
\* State, and its binding was returned
C19_Witness ==
    /\ last.op = "getTokenInstance" /\ last.outcome = "ok"
    /\ last.region # FsmName /\ RegionInitial(last.region) = Null
    /\ last.ret # Null /\ tokenInstances[last.tok] = last.ret
    /\ last.trace = <<>>
\* C20: after addStateTransitionForAllStates(e, T) returns, with
\* self-transitions allowed, every registered State that was not created
\* final and had no edge for e has the edge e -> T, the States that had no
\* outbound edge at all included.
C20_BulkAddReachesEveryState ==
    [][LET c == last'
           e == ResolveEvent(c.evArg)
       IN (c.op = "addStateTransitionForAllStates" /\ c.outcome = "ok"
           /\ allowSelfTransition)
          => \A i \in states :
                (~sobj[i].isFinalState /\ EdgeTarget(i, e) = Null)
                => /\ e \in DOMAIN sobj'[i].transitionTable
                   /\ sobj'[i].transitionTable[e] = c.next]_vars
\* C21: removeAllStatesTransitionForEvent(e) with an event that resolves
\* never raises; afterwards no registered State has an edge for e, and
\* every edge for another event is as it was.
C21_BulkRemoveClearsEvent ==
    [][LET c == last'
           e == ResolveEvent(c.evArg)
       IN (c.op = "removeAllStatesTransitionForEvent" /\ e # Null)
          => /\ c.outcome = "ok"
             /\ \A i \in states :
                   /\ e \notin DOMAIN sobj'[i].transitionTable
                   /\ DOMAIN sobj'[i].transitionTable = DOMAIN sobj[i].transitionTable \ {e}
                   /\ \A f \in DOMAIN sobj'[i].transitionTable :
                         sobj'[i].transitionTable[f] = sobj[i].transitionTable[f]]_vars

\* Two States lost their edge for the event and another edge is still there
C21_Witness ==
    /\ last.op = "removeAllStatesTransitionForEvent" /\ last.outcome = "ok"
    /\ Len(last.fsmNotes) = 2
    /\ \E i \in states : DOMAIN sobj[i].transitionTable # {}
Queries == {"nextState", "isTransitionValid", "isTransitionValidByEvent"}

\* C22: the engine's transition queries never raise and change nothing;
\* nextState(s, e) is the target declared for (s, e), none when there is no
\* edge or when s or e does not resolve; isTransitionValidByEvent(s, e) is
\* true exactly when that target is a State; isTransitionValid(s, e, t) is
\* true exactly when it is a State equal to t, and false when s, e or t
\* does not resolve.
C22_QueriesArePure ==
    [][LET c == last'
           target == EdgeTarget(c.st, ResolveEvent(c.evArg))
       IN c.op \in Queries
          => /\ c.outcome = "ok"
             /\ UNCHANGED <<sobj, eobj, states, events, initialStates, tokenInstances,
                            allowSelfTransition, listener>>
             /\ c.op = "nextState" => c.ret = target
             /\ c.op = "isTransitionValidByEvent" => c.bool = (target # Null)
             /\ c.op = "isTransitionValid"
                => c.bool = (/\ target # Null /\ c.next # Null
                             /\ sobj[target].stateId = sobj[c.next].stateId
                             /\ sobj[target].stateName = sobj[c.next].stateName)]_vars

\* isTransitionValid was false for a State that has an edge for the event,
\* to another State than the one asked about
C22_Witness ==
    /\ last.op = "isTransitionValid" /\ ~last.bool
    /\ last.next # Null
    /\ EdgeTarget(last.st, ResolveEvent(last.evArg)) # Null
    /\ EdgeTarget(last.st, ResolveEvent(last.evArg)) # last.next
\* C23: removeTransition deletes the edge together with its output entry,
\* so that for every State and Event nextOutput returns a function only if
\* the State has an edge for the Event.
C23_OutputOnlyWithEdge ==
    \A i \in StateRefs : \A e \in EventRefs :
        State_nextOutput(sobj[i], e) # <<>> => State_nextState(sobj[i], e) # Null
\* C24: a State equals itself, its own id and its own name, and does not
\* equal undefined; it equals another State exactly when both id and name
\* match, a number exactly when the id matches and a string exactly when
\* the name matches; the same for an Event with eventId and eventName.
C24_EqualsAcrossForms ==
    /\ last.op = "FsmState.equals"
       => LET s == sobj[last.st]
              a == last.arg
          IN /\ a = Obj(last.st) => last.bool
             /\ a = Id(s.stateId) => last.bool
             /\ a = Name(s.stateName) => last.bool
             /\ a = NoArg => ~last.bool
             /\ a.k = "obj" => last.bool = (/\ s.stateId = sobj[a.n].stateId
                                            /\ s.stateName = sobj[a.n].stateName)
             /\ a.k = "id" => last.bool = (s.stateId = a.n)
             /\ a.k = "name" => last.bool = (s.stateName = a.s)
    /\ last.op = "FsmEvent.equals"
       => LET e == eobj[last.evArg.n]
              a == last.arg
          IN /\ a = last.evArg => last.bool
             /\ a = Id(e.eventId) => last.bool
             /\ a = Name(e.eventName) => last.bool
             /\ a = NoArg => ~last.bool
             /\ a.k = "obj" => last.bool = (/\ e.eventId = eobj[a.n].eventId
                                            /\ e.eventName = eobj[a.n].eventName)
             /\ a.k = "id" => last.bool = (e.eventId = a.n)
             /\ a.k = "name" => last.bool = (e.eventName = a.s)

\* A State was compared with another State of the same name and another id
C24_Witness ==
    /\ last.op = "FsmState.equals" /\ last.arg.k = "obj" /\ ~last.bool
    /\ sobj[last.arg.n].stateName = sobj[last.st].stateName
    /\ sobj[last.arg.n].stateId # sobj[last.st].stateId
\* C25: a successful advancement whose structurally-defined next State is
\* deterministic does not invoke the resolver, supplied or not, and binds
\* the token to, and returns, the target declared in the current State's
\* table for the event; the flag that counts is the target's, whatever the
\* current State's flag.
C25_DeterministicTargetWins ==
    (/\ IsUpdate(last) /\ last.outcome = "ok" /\ last.st # Null
     /\ Tentative(last) # Null /\ sobj[Tentative(last)].isDeterministic)
    => /\ "altStateTable()" \notin Range(last.trace)
       /\ "token.transit.nd" \notin Range(last.trace)
       /\ last.ret = Tentative(last)
       /\ last.tok \in DOMAIN tokenInstances
       /\ tokenInstances[last.tok] = Tentative(last)

\* The current State was marked non-deterministic, the target was not, and
\* a resolver that would have answered otherwise was supplied
C25_Witness ==
    /\ IsUpdate(last) /\ last.outcome = "ok" /\ last.st # Null
    /\ ~sobj[last.st].isDeterministic
    /\ Tentative(last) # Null /\ sobj[Tentative(last)].isDeterministic
    /\ last.alt.given /\ last.alt.ret # Tentative(last)
    /\ tokenInstances[last.tok] = Tentative(last)
\* C26: addStateTransitionForAllStates(e, T) with e and T resolved never
\* raises; a State that has an edge for e to another target, and the State
\* T itself while self-transitions are disallowed, keep their tables as
\* they are, and every other State the loop takes up (not final, with an
\* outbound edge, none of them for e) gets the edge e -> T, whatever State
\* was refused before it.
C26_BulkAddIsBestEffort ==
    [][LET c == last'
           e == ResolveEvent(c.evArg)
           T == c.next
       IN (c.op = "addStateTransitionForAllStates" /\ e # Null /\ T # Null)
          => /\ c.outcome = "ok"
             /\ \A i \in states :
                   LET old == EdgeTarget(i, e)
                       self == /\ sobj[i].stateId = sobj[T].stateId
                               /\ sobj[i].stateName = sobj[T].stateName
                   IN /\ (old # Null /\ old # T) => sobj'[i] = sobj[i]
                      /\ (~allowSelfTransition /\ self) => sobj'[i] = sobj[i]
                      /\ (/\ ~sobj[i].isFinalState
                          /\ DOMAIN sobj[i].transitionTable # {}
                          /\ old = Null
                          /\ allowSelfTransition \/ ~self)
                         => /\ e \in DOMAIN sobj'[i].transitionTable
                            /\ sobj'[i].transitionTable[e] = T]_vars

\* A State with an edge for the event to another target was passed over and
\* a State after it got the edge
C26_Witness ==
    /\ last.op = "addStateTransitionForAllStates" /\ last.outcome = "ok"
    /\ \E i, j \in states :
          /\ i < j
          /\ EdgeTarget(i, ResolveEvent(last.evArg)) \notin {Null, last.next}
          /\ EdgeTarget(j, ResolveEvent(last.evArg)) = last.next
          /\ <<"fsm.transit.added", j>> \in Range(last.fsmNotes)
\* C27: addState, addFinalState and addEvent called without an id assign an
\* id that is not registered: the call succeeds and the registry grows by
\* exactly one entry, whatever ids were used before.
C27_AutoIdIsFresh ==
    [][LET c == last' IN
       /\ (c.op \in AddOps /\ c.idArg = <<>>)
          => /\ c.outcome = "ok"
             /\ c.ret \notin states /\ states' = states \cup {c.ret}
             /\ StatesWithId(sobj'[c.ret].stateId) = {}
       /\ (c.op = "addEvent" /\ c.idArg = <<>>)
          => /\ c.outcome = "ok"
             /\ c.ret \notin events /\ events' = events \cup {c.ret}
             /\ EventsWithId(eobj'[c.ret].eventId) = {}]_vars
\* The registered States with the id and name of State object s
RegisteredAs(s) ==
    {i \in states : /\ sobj[i].stateId = sobj[s].stateId
                    /\ sobj[i].stateName = sobj[s].stateName}

\* C28: setInitialState with a State whose id and name are not those of a
\* registered State returns false, publishes nothing and leaves the
\* initial-state mapping and every State's region tag as they were.
C28_SetInitialNeedsRegistered ==
    [][LET c == last' IN
       (c.op = "setInitialState" /\ RegisteredAs(c.st) = {})
       => /\ c.outcome = "false"
          /\ c.fsmNotes = <<>>
          /\ UNCHANGED <<sobj, initialStates, states>>]_vars

\* A State from before clearAll was refused as initial State of a region
C28_Witness ==
    /\ last.op = "setInitialState" /\ last.outcome = "false"
    /\ last.st \notin states /\ RegisteredAs(last.st) = {}
    /\ last.region \notin DOMAIN initialStates
\* C29: a successful setInitialState on a region that has a holder
\* publishes one initial-state-removed notification for that holder and
\* then one initial-state-added notification for the new holder, and
\* nothing else; on a region without a holder it publishes the added
\* notification alone.
C29_RemovedBeforeAdded ==
    [][LET c == last'
           S == RegionInitial(c.region)
           added == <<"fsm.state.initial.added", initialStates'[c.region]>>
       IN (c.op = "setInitialState" /\ c.outcome = "ok")
          => IF S # Null
             THEN c.fsmNotes = <<<<"fsm.state.initial.removed", S>>, added>>
             ELSE c.fsmNotes = <<added>>]_vars

\* The holder of a region was replaced by another State
C29_Witness ==
    /\ last.op = "setInitialState" /\ last.outcome = "ok"
    /\ Len(last.fsmNotes) = 2
    /\ last.fsmNotes[1][1] = "fsm.state.initial.removed"
    /\ last.fsmNotes[2][1] = "fsm.state.initial.added"
    /\ last.fsmNotes[1][2] # last.fsmNotes[2][2]
\* C30: an advancement of a token id that has no binding first creates the
\* token at the default region's initial State, publishing token-created,
\* and then advances it from that State: after a successful call the
\* binding is the next State of (initial State, event), which is the
\* table's target when that target is deterministic and the resolver's
\* answer when it is not.
C30_UpdateCreatesLazily ==
    [][LET c == last'
           init == RegionInitial(FsmName)
           target == EdgeTarget(init, ResolveEvent(c.evArg))
       IN (/\ IsUpdate(c) /\ ~IsBlank(c.tok) /\ c.tok \notin DOMAIN tokenInstances
           /\ init # Null)
          => /\ c.st = init
             /\ Len(c.trace) > 0 /\ c.trace[1] = "tokenInstances.set"
             /\ Count(c.trace, "token.new") = (IF listener THEN 1 ELSE 0)
             /\ listener => c.trace[2] = "token.new"
             /\ c.tok \in DOMAIN tokenInstances'
             /\ c.outcome = "ok"
                => /\ target # Null
                   /\ tokenInstances'[c.tok] =
                         (IF sobj[target].isDeterministic THEN target ELSE c.alt.ret)
                   /\ Count(c.trace, "tokenInstances.set") = 2]_vars

\* A token was created by the advancement and moved off the initial State
C30_Witness ==
    /\ IsUpdate(last) /\ last.outcome = "ok" /\ listener
    /\ Count(last.trace, "tokenInstances.set") = 2
    /\ Before(last.trace, "token.new", "token.state.changed")
    /\ last.st = RegionInitial(FsmName)
    /\ tokenInstances[last.tok] = Tentative(last)
    /\ tokenInstances[last.tok] # last.st
\* C31: the binding of a token changes only by a successful
\* updateTokenToNextState on that token id, and no operation removes a
\* binding: every other call, on another token id or on the registries,
\* the initial States or the transition tables, leaves every existing
\* binding as it was.
C31_BindingChangesOnlyByUpdate ==
    [][\A t \in DOMAIN tokenInstances :
          /\ t \in DOMAIN tokenInstances'
          /\ tokenInstances'[t] # tokenInstances[t]
             => /\ IsUpdate(last') /\ last'.tok = t /\ last'.outcome = "ok"
                /\ tokenInstances'[t] = last'.ret]_vars

\* The edge a token arrived by was removed: the token is bound to a State
\* that is not the initial State and that no edge leads to any more
C31_Witness ==
    /\ last.op \in {"removeTransition", "removeStateTransition"}
    /\ last.outcome = "ok"
    /\ \E t \in DOMAIN tokenInstances :
          /\ tokenInstances[t] # RegionInitial(FsmName)
          /\ \A i \in StateRefs : \A e \in EventRefs :
                EdgeTarget(i, e) # tokenInstances[t]
\* C32: every State held in the initial-state mapping is in the state
\* registry, and whenever the state registry is not empty the default
\* region, the engine's name, has an initial State.
C32_InitialStatesAreRegistered ==
    /\ \A r \in DOMAIN initialStates :
          initialStates[r] # Null /\ initialStates[r] \in states
    /\ states # {} => RegionInitial(FsmName) # Null

\* Two regions have two initial States, after States had been cleared and
\* added again or added to the wired machine
C32_Witness ==
    /\ last.op = "setInitialState" /\ last.outcome = "ok"
    /\ last.region # FsmName
    /\ RegionInitial(last.region) \in states
    /\ RegionInitial(FsmName) \in states
    /\ RegionInitial(last.region) # RegionInitial(FsmName)
    /\ Cardinality(states) >= 2

\* C33: the transit topic of a successful advancement is emitted before the
\* binding is written: when the handler is called the token is still bound
\* to the pre-transition State and the topic is the last thing the call has
\* done, a handler that reads the token first thing gets the pre-transition State,
\* and when the call returns the binding is the State the call resolved
\* before the emit, whatever the handler did to the token meanwhile
C33_EmitBeforeWrite ==
    [][/\ (pending = NoPending /\ pending' # NoPending)
          => /\ tokenInstances'[pending'.tok] = pending'.call.st
             /\ last'.trace # <<>>
             /\ last'.trace[Len(last'.trace)] \in TransitTopics
       /\ (/\ pending # NoPending
           /\ last.outcome = "notifying"
           /\ last'.op = "getTokenInstance"
           /\ last'.tok = pending.tok)
          => /\ last'.outcome = "ok"
             /\ last'.ret = pending.call.st
       /\ (pending # NoPending /\ pending' = NoPending /\ last'.outcome = "ok")
          => /\ tokenInstances'[pending.tok] = pending.next
             /\ last'.ret = pending.next
             /\ last'.st = pending.call.st]_vars

\* The outer call has returned after its handler advanced the same token to
\* another State than the one the outer call resolved
C33_Witness ==
    /\ pending = NoPending
    /\ IsUpdate(last)
    /\ last.outcome = "ok"
    /\ last.handler # <<>>
    /\ last.handler[1].op = "updateTokenToNextState"
    /\ last.handler[1].tok = last.tok
    /\ last.handler[1].outcome = "ok"
    /\ last.handler[1].ret # last.ret
    /\ tokenInstances[last.tok] = last.ret

====
